---- MODULE Spec2Model ----
(***************************************************************************)
(* pipe_resize: a command line tool that queries or sets the kernel buffer *)
(* capacity of a named pipe (src/pipe_resize.c).  The model follows main() *)
(* statement by statement; the C integer types keep their real widths.     *)
(* An unsigned long is held as a little-endian sequence of 16-bit limbs    *)
(* (2 limbs on an ILP32 build, 4 limbs on an LP64 build) because the       *)
(* values involved do not fit the integers of the model checker.           *)
(***************************************************************************)
EXTENDS Integers, Sequences, FiniteSets, TLC

\* ------------------------------------------------------------------ bounds
\* longest size argument enumerated exhaustively over Alphabet
MaxLen == 2
\* number of successive invocations of the tool in one behaviour
MaxRuns == 3
\* largest argc (program name included) tried
MaxArgc == 4

\* --------------------------------------------------------- C integer types
INT_MAX == 2147483647
LimbBits == 16
LimbBase == 2 ^ LimbBits
\* unsigned is 32 bits wide on both builds
UnsignedLimbs == 32 \div LimbBits
\* sizeof(unsigned long) in limbs: ILP32 and LP64
LongLimbsChoices == {32 \div LimbBits, 64 \div LimbBits}

Zero(n) == [k \in 1..n |-> 0]
ULONG_MAX(n) == [k \in 1..n |-> LimbBase - 1]

\* acc * 10 + d in n limbs, with the carry out of the top limb
RECURSIVE MulAdd10(_, _, _, _)
MulAdd10(acc, k, carry, out) ==
    IF k > Len(acc)
    THEN [limbs |-> out, carry |-> carry]
    ELSE LET t == acc[k] * 10 + carry
         IN  MulAdd10(acc, k + 1, t \div LimbBase, Append(out, t % LimbBase))

\* unsigned negation (two's complement) in Len(acc) limbs
RECURSIVE NegateFrom(_, _, _, _)
NegateFrom(acc, k, carry, out) ==
    IF k > Len(acc)
    THEN out
    ELSE LET t == (LimbBase - 1 - acc[k]) + carry
         IN  NegateFrom(acc, k + 1, t \div LimbBase, Append(out, t % LimbBase))

Negate(acc) == NegateFrom(acc, 1, 1, <<>>)

\* ------------------------------------------------------------- characters
Digits == <<"0", "1", "2", "3", "4", "5", "6", "7", "8", "9">>
IsDigit(c) == \E d \in 1..10 : Digits[d] = c
DigitVal(c) == (CHOOSE d \in 1..10 : Digits[d] = c) - 1
IsSpace(c) == c = " "

\* ----------------------------------------------------------------- strtoul
\* index of the first character of s at or after i that is not white space
RECURSIVE SkipSpace(_, _)
SkipSpace(s, i) ==
    IF i <= Len(s) /\ IsSpace(s[i]) THEN SkipSpace(s, i + 1) ELSE i

\* consume the digits of s from index i; st = [acc, overflow, i]
RECURSIVE ScanDigits(_, _, _, _)
ScanDigits(s, i, acc, overflow) ==
    IF i <= Len(s) /\ IsDigit(s[i])
    THEN LET r == MulAdd10(acc, 1, DigitVal(s[i]), <<>>)
         IN  ScanDigits(s, i + 1, r.limbs, overflow \/ r.carry # 0)
    ELSE [acc |-> acc, overflow |-> overflow, i |-> i]

\* strtoul(s, &endptr, 10) for an unsigned long of n limbs.  endptr is the
\* index of the first unconsumed character (Len(s) + 1 is the final NUL).
strtoul(s, n) ==
    LET start == SkipSpace(s, 1)
        neg == start <= Len(s) /\ s[start] = "-"
        signed == start <= Len(s) /\ s[start] \in {"-", "+"}
        first == IF signed THEN start + 1 ELSE start
        sc == ScanDigits(s, first, Zero(n), FALSE)
    IN  IF sc.i = first
        THEN [value |-> Zero(n), endptr |-> 1, erange |-> FALSE]
        ELSE IF sc.overflow
        THEN [value |-> ULONG_MAX(n), endptr |-> sc.i, erange |-> TRUE]
        ELSE [value |-> IF neg THEN Negate(sc.acc) ELSE sc.acc,
              endptr |-> sc.i, erange |-> FALSE]

\* conversion unsigned long -> unsigned: the low 32 bits
ToUnsigned(v) == SubSeq(v, 1, UnsignedLimbs)

\* size > INT_MAX for a 32-bit unsigned held in two limbs
GtIntMax(u) == u[2] > INT_MAX \div LimbBase

\* faulty variant: the conversion keeps the low 16 bits only
ToIntLowLimb(u) == u[1]

\* (int)size, for size <= INT_MAX
ToInt(u) == u[2] * LimbBase + u[1]

\* "%d": the decimal digits of an int, most significant first
RECURSIVE DecDigits(_)
DecDigits(n) ==
    IF n < 10 THEN <<Digits[n + 1]>>
    ELSE Append(DecDigits(n \div 10), Digits[(n % 10) + 1])

FormatInt(n) == IF n < 0 THEN <<"-">> \o DecDigits(-n) ELSE DecDigits(n)

\* ------------------------------------------------------------ command line
Alphabet == {"0", "7", "x", "-", "+", " "}

RECURSIVE StringsUpTo(_)
StringsUpTo(n) ==
    IF n = 0 THEN {<<>>}
    ELSE LET shorter == StringsUpTo(n - 1)
         IN  shorter \cup {Append(s, c) : s \in shorter, c \in Alphabet}

\* size arguments around the limits of int, unsigned and unsigned long
NamedSizeArgs ==
    { <<"1", "0", "0", "x">>,
      <<"a", "b", "c">>,
      <<"6", "5", "5", "3", "6">>,
      <<"1", "0", "4", "8", "5", "7", "6">>,
      <<"0", "0", "0", "4", "0", "9", "7">>,
      <<"1", "0", "7", "3", "7", "4", "1", "8", "2", "4">>,
      <<"2", "1", "4", "7", "4", "8", "3", "6", "4", "7">>,
      <<"2", "1", "4", "7", "4", "8", "3", "6", "4", "8">>,
      <<"4", "2", "9", "4", "9", "6", "7", "2", "9", "5">>,
      <<"4", "2", "9", "4", "9", "6", "7", "2", "9", "6">>,
      <<"4", "2", "9", "4", "9", "7", "1", "3", "9", "2">>,
      <<"9", "9", "9", "9", "9", "9", "9", "9", "9", "9", "9">>,
      <<"-", "4", "2", "9", "4", "9", "6", "7", "2", "9", "5">>,
      <<"-", "2", "1", "4", "7", "4", "8", "3", "6", "4", "8">>,
      <<"1", "8", "4", "4", "6", "7", "4", "4", "0", "7", "3",
        "7", "0", "9", "5", "5", "1", "6", "1", "5">>,
      <<"1", "8", "4", "4", "6", "7", "4", "4", "0", "7", "3",
        "7", "0", "9", "5", "5", "1", "6", "1", "6">>,
      <<"1", "8", "4", "4", "6", "7", "4", "4", "0", "7", "3",
        "7", "0", "9", "6", "1", "7", "1", "5", "2">> }

SizeArgs == StringsUpTo(MaxLen) \cup NamedSizeArgs

\* -------------------------------------------------- the operating system
\* The file system the tool runs against: one FIFO, one regular file, one
\* path that does not exist and one the caller may not open.
Paths == {"/tmp/myfifo", "/tmp/file", "/tmp/nosuchfifo", "/root/fifo"}
NoArg == ""

PathKind(p) ==
    CASE p = "/tmp/myfifo" -> "fifo"
      [] p = "/tmp/file" -> "regular"
      [] p = "/root/fifo" -> "noaccess"
      [] OTHER -> "missing"

\* errno left by open(p, O_RDWR); "OK" when a descriptor is returned
OpenErrno(p) ==
    CASE PathKind(p) \in {"fifo", "regular"} -> "OK"
      [] PathKind(p) = "noaccess" -> "EACCES"
      [] OTHER -> "ENOENT"

PAGE_SIZE == 2 ^ 12
DefaultPipeSize == 16 * PAGE_SIZE
\* above this no allocation of pipe buffers succeeds
PipeHardLimit == 2 ^ 30

\* the kernel rounds a requested capacity up to a power-of-two number of pages
RECURSIVE RoundUpFrom(_, _)
RoundUpFrom(n, p) == IF p >= n THEN p ELSE RoundUpFrom(n, 2 * p)

PipeRound(n) == RoundUpFrom(n, PAGE_SIZE)

strerror(e) ==
    CASE e = "ENOENT" -> "No such file or directory"
      [] e = "EACCES" -> "Permission denied"
      [] e = "EBADF" -> "Bad file descriptor"
      [] e = "EPERM" -> "Operation not permitted"
      [] e = "EBUSY" -> "Device or resource busy"
      [] e = "ERANGE" -> "Numerical result out of range"
      [] OTHER -> "Success"

\* ------------------------------------------------------------------- state
VARIABLES
    longLimbs,   \* width of unsigned long of the build, in limbs
    held,        \* another process keeps the FIFO open
    pipeSize,    \* capacity of the FIFO's kernel buffer
    startSize,   \* pipeSize when the current invocation started
    runs,        \* invocations started so far
    lastQuery,   \* outcome of the preceding invocation if it was path-only
    argc,        \* argc of main (program name included)
    path,        \* argv[1]
    sizeArg,     \* argv[2]
    pc,          \* position in main
    fd,          \* the local fd: -1 until open returns a descriptor
    fdOpen,      \* the descriptor returned by open is still open
    opens,       \* open calls of this invocation
    closes,      \* close calls of this invocation
    calls,       \* fcntl control calls of this invocation
    ret,         \* the local ret
    errno,
    out,         \* lines written to standard output
    err,         \* messages written to standard error
    exitCode     \* value returned by main; NotExited while running

vars == <<longLimbs, held, pipeSize, startSize, runs, lastQuery, argc, path,
          sizeArg, pc, fd, fdOpen, opens, closes, calls, ret, errno, out, err,
          exitCode>>

NotExited == -1
NoQuery == [path |-> NoArg, exit |-> NotExited, out |-> <<>>]
ProgName == "pipe_resize"

\* the command lines tried: argv[1] and argv[2] exist only when argc allows
Invocations ==
    {[argc |-> 1, path |-> NoArg, size |-> <<>>]}
    \cup {[argc |-> 2, path |-> p, size |-> <<>>] : p \in Paths}
    \cup {[argc |-> n, path |-> p, size |-> s] :
             n \in 3..MaxArgc, p \in Paths, s \in SizeArgs}

Init ==
    /\ longLimbs \in LongLimbsChoices
    /\ held \in BOOLEAN
    /\ pipeSize = DefaultPipeSize
    /\ startSize = DefaultPipeSize
    /\ runs = 0
    /\ lastQuery = NoQuery
    /\ argc = 0 /\ path = NoArg /\ sizeArg = <<>>
    /\ pc = "idle"
    /\ fd = -1
    /\ fdOpen = FALSE
    /\ opens = 0
    /\ closes = 0
    /\ calls = <<>>
    /\ ret = 0
    /\ errno = "OK"
    /\ out = <<>>
    /\ err = <<>>
    /\ exitCode = NotExited

Arg(src, val) == [src |-> src, val |-> val]
Message(fmt, args) == [fmt |-> fmt, args |-> args]

\* close(fd): the FIFO's buffer is released with its last descriptor
CloseFd ==
    /\ fdOpen' = FALSE
    /\ closes' = closes + 1
    /\ pipeSize' = IF PathKind(path) = "fifo" /\ ~held
                   THEN DefaultPipeSize ELSE pipeSize

Return(code) ==
    /\ exitCode' = code
    /\ pc' = "exited"

env == <<longLimbs, held, startSize, runs, lastQuery, argc, path, sizeArg>>

\* line 30: unsigned size = strtoul(argv[2], &endptr, 10)
Parsed == strtoul(sizeArg, longLimbs)
size == ToUnsigned(Parsed.value)

\* faulty variant: the test of endptr is left out
SizeRejectedNoEndCheck == GtIntMax(size)

\* line 31: *endptr != '\0' || size > INT_MAX
SizeRejected == Parsed.endptr # Len(sizeArg) + 1 \/ GtIntMax(size)

\* faulty variant: the upper limit of argc is left out
BadArgCountNoUpper == argc < 2

\* line 16: argc < 2 || argc > 3
BadArgCount == argc < 2 \/ argc > 3

\* lines 16-19
Usage ==
    /\ pc = "start"
    /\ BadArgCount
    /\ err' = Append(err, Message("Usage: %s <fifo_path> [new_fifo_size]\n",
                                   <<Arg("argv[0]", ProgName)>>))
    /\ Return(1)
    /\ UNCHANGED <<env, pipeSize, fd, fdOpen, opens, closes, calls, ret, errno, out>>

\* faulty variant: the size argument is examined before the result of open
OpenFailedAfterParse ==
    /\ pc = "start"
    /\ ~BadArgCount
    /\ OpenErrno(path) # "OK"
    /\ errno' = OpenErrno(path)
    /\ fd' = -1
    /\ opens' = opens + 1
    /\ IF argc = 3 /\ SizeRejected
       THEN /\ err' = Append(err, Message("The size given is either invalid or too big\n",
                                          <<>>))
            /\ Return(3)
       ELSE /\ err' = Append(err, Message("Failed to open %s: %s\n",
                                          <<Arg("argv[1]", path),
                                            Arg("strerror", strerror(errno'))>>))
            /\ Return(2)
    /\ UNCHANGED <<env, pipeSize, fdOpen, closes, calls, ret, out>>

\* lines 21-25, open fails
OpenFailed ==
    /\ pc = "start"
    /\ ~BadArgCount
    /\ OpenErrno(path) # "OK"
    /\ errno' = OpenErrno(path)
    /\ err' = Append(err, Message("Failed to open %s: %s\n",
                                   <<Arg("argv[1]", path),
                                     Arg("strerror", strerror(errno'))>>))
    /\ fd' = -1
    /\ opens' = opens + 1
    /\ Return(2)
    /\ UNCHANGED <<env, pipeSize, fdOpen, closes, calls, ret, out>>

\* line 21, open succeeds
OpenOk ==
    /\ pc = "start"
    /\ ~BadArgCount
    /\ OpenErrno(path) = "OK"
    /\ fd' = 3
    /\ fdOpen' = TRUE
    /\ opens' = opens + 1
    /\ pc' = "opened"
    /\ UNCHANGED <<env, pipeSize, closes, calls, ret, errno, out, err, exitCode>>

\* faulty variant: the error path returns without closing the descriptor
SizeInvalidLeak ==
    /\ pc = "opened"
    /\ argc = 3
    /\ SizeRejected
    /\ errno' = IF Parsed.erange THEN "ERANGE" ELSE errno
    /\ err' = Append(err, Message("The size given is either invalid or too big\n",
                                   <<>>))
    /\ Return(3)
    /\ UNCHANGED <<env, pipeSize, fd, fdOpen, opens, closes, calls, ret, out>>

\* lines 28-35, the size argument is refused
SizeInvalid ==
    /\ pc = "opened"
    /\ argc = 3
    /\ SizeRejected
    /\ errno' = IF Parsed.erange THEN "ERANGE" ELSE errno
    /\ err' = Append(err, Message("The size given is either invalid or too big\n",
                                   <<>>))
    /\ CloseFd
    /\ Return(3)
    /\ UNCHANGED <<env, fd, opens, calls, ret, out>>

\* outcomes of fcntl(fd, F_SETPIPE_SZ, n) on the open file: the value
\* returned, the errno left behind and the capacity of the FIFO afterwards
FcntlSet(n) ==
    IF PathKind(path) # "fifo"
    THEN {[ret |-> -1, errno |-> "EBADF", size |-> pipeSize]}
    ELSE {[ret |-> -1, errno |-> e, size |-> pipeSize] : e \in {"EPERM", "EBUSY"}}
         \cup (IF n <= PipeHardLimit
               THEN {[ret |-> PipeRound(n), errno |-> errno, size |-> PipeRound(n)]}
               ELSE {})

\* outcomes of fcntl(fd, F_GETPIPE_SZ)
FcntlGet ==
    IF PathKind(path) # "fifo"
    THEN {[ret |-> -1, errno |-> "EBADF", size |-> pipeSize]}
    ELSE {[ret |-> pipeSize, errno |-> errno, size |-> pipeSize]}

Control(cmd, arg, outcomes) ==
    /\ calls' = Append(calls, [cmd |-> cmd, arg |-> arg])
    /\ \E o \in outcomes :
          /\ ret' = o.ret
          /\ errno' = o.errno
          /\ pipeSize' = o.size
    /\ pc' = "called"

\* lines 28-36, the size argument is accepted
SetPipeSz ==
    /\ pc = "opened"
    /\ argc = 3
    /\ ~SizeRejected
    /\ Control("F_SETPIPE_SZ", <<ToInt(size)>>, FcntlSet(ToInt(size)))
    /\ UNCHANGED <<env, fd, fdOpen, opens, closes, out, err, exitCode>>

\* faulty variant: the query branch issues the set command
GetPipeSzAsSet ==
    /\ pc = "opened"
    /\ argc # 3
    /\ Control("F_SETPIPE_SZ", <<0>>, FcntlSet(0))
    /\ UNCHANGED <<env, fd, fdOpen, opens, closes, out, err, exitCode>>

\* lines 37-39
GetPipeSz ==
    /\ pc = "opened"
    /\ argc # 3
    /\ Control("F_GETPIPE_SZ", <<>>, FcntlGet)
    /\ UNCHANGED <<env, fd, fdOpen, opens, closes, out, err, exitCode>>

\* faulty variant: the result is printed before it is tested
OperationFailedPrints ==
    /\ pc = "called"
    /\ ret = -1
    /\ out' = Append(out, FormatInt(ret))
    /\ err' = Append(err, Message("Operation failed: %s\n",
                                   <<Arg("strerror", strerror(errno))>>))
    /\ CloseFd
    /\ Return(4)
    /\ UNCHANGED <<env, fd, opens, calls, ret, errno>>

\* faulty variant: the message leaves out the OS error text
OperationFailedNoErrText ==
    /\ pc = "called"
    /\ ret = -1
    /\ err' = Append(err, Message("Operation failed\n", <<>>))
    /\ CloseFd
    /\ Return(4)
    /\ UNCHANGED <<env, fd, opens, calls, ret, errno, out>>

\* lines 40-44
OperationFailed ==
    /\ pc = "called"
    /\ ret = -1
    /\ err' = Append(err, Message("Operation failed: %s\n",
                                   <<Arg("strerror", strerror(errno))>>))
    /\ CloseFd
    /\ Return(4)
    /\ UNCHANGED <<env, fd, opens, calls, ret, errno, out>>

\* lines 45-47
PrintResult ==
    /\ pc = "called"
    /\ ret # -1
    /\ out' = Append(out, FormatInt(ret))
    /\ CloseFd
    /\ Return(0)
    /\ UNCHANGED <<env, fd, opens, calls, ret, errno, err>>

\* the tool is started with a command line; main is entered
Invoke ==
    /\ pc = "idle"
    /\ runs < MaxRuns
    /\ runs' = runs + 1
    /\ \E inv \in Invocations :
          argc' = inv.argc /\ path' = inv.path /\ sizeArg' = inv.size
    /\ startSize' = pipeSize
    /\ pc' = "start"
    /\ UNCHANGED <<longLimbs, held, pipeSize, lastQuery, fd, fdOpen, opens,
                   closes, calls, ret, errno, out, err, exitCode>>

\* the process that returned from main is gone; nothing of it is left but
\* what it printed when it was a path-only invocation
Reap ==
    /\ pc = "exited"
    /\ lastQuery' = IF argc = 2
                    THEN [path |-> path, exit |-> exitCode, out |-> out]
                    ELSE NoQuery
    /\ argc' = 0 /\ path' = NoArg /\ sizeArg' = <<>>
    /\ pc' = "idle"
    /\ fd' = -1
    /\ fdOpen' = FALSE
    /\ opens' = 0
    /\ closes' = 0
    /\ calls' = <<>>
    /\ ret' = 0
    /\ errno' = "OK"
    /\ out' = <<>>
    /\ err' = <<>>
    /\ exitCode' = NotExited
    /\ UNCHANGED <<longLimbs, held, pipeSize, startSize, runs>>

Next ==
    \/ Usage
    \/ OpenFailed
    \/ OpenOk
    \/ SizeInvalid
    \/ SetPipeSz
    \/ GetPipeSz
    \/ OperationFailed
    \/ PrintResult
    \/ Invoke
    \/ Reap

Spec == Init /\ [][Next]_vars

TypeOK ==
    /\ longLimbs \in LongLimbsChoices
    /\ pc \in {"idle", "start", "opened", "called", "exited"}
    /\ exitCode \in {NotExited, 0, 1, 2, 3, 4}
    /\ (pc = "exited") = (exitCode # NotExited)
    /\ opens \in 0..1 /\ closes \in 0..1
    /\ Len(calls) <= 1

\* ----------------------------------------------------------------- claims
\* What the claims say about a size argument, stated on its characters
\* alone, independently of strtoul.
AllDigits(s) == Len(s) > 0 /\ \A i \in 1..Len(s) : IsDigit(s[i])
NoDigits(s) == \A i \in 1..Len(s) : ~IsDigit(s[i])

RECURSIVE StripZeros(_)
StripZeros(s) ==
    IF Len(s) > 1 /\ s[1] = "0" THEN StripZeros(Tail(s)) ELSE s

\* digit strings of equal length compare as numbers, left to right
RECURSIVE DigitsLeq(_, _)
DigitsLeq(a, b) ==
    IF a = <<>> THEN TRUE
    ELSE IF DigitVal(a[1]) # DigitVal(b[1]) THEN DigitVal(a[1]) < DigitVal(b[1])
    ELSE DigitsLeq(Tail(a), Tail(b))

\* the digit string denotes a number in [0, 2^31 - 1]
FitsInt(s) ==
    LET z == StripZeros(s)
        m == FormatInt(INT_MAX)
    IN  Len(z) < Len(m) \/ (Len(z) = Len(m) /\ DigitsLeq(z, m))

\* the number a digit string denotes, for FitsInt strings
RECURSIVE DecValue(_)
DecValue(s) ==
    IF s = <<>> THEN 0
    ELSE DecValue(SubSeq(s, 1, Len(s) - 1)) * 10 + DigitVal(s[Len(s)])

SizeGiven == argc = 3 /\ fd # -1
Started == pc # "idle"
Running == pc \in {"start", "opened", "called"}
Exited == pc = "exited"
SetCall(n) == [cmd |-> "F_SETPIPE_SZ", arg |-> <<n>>]
GetCall == [cmd |-> "F_GETPIPE_SZ", arg |-> <<>>]
HasArg(m, src, val) == \E i \in 1..Len(m.args) : m.args[i] = Arg(src, val)
HasArgFrom(m, src) == \E i \in 1..Len(m.args) : m.args[i].src = src

\* C1: with two arguments, an openable path and a size argument made of
\* decimal digits whose value exceeds 2^31 - 1, the tool issues no control
\* call and exits with code 3.
C1_TooBigRejected ==
    (SizeGiven /\ AllDigits(sizeArg) /\ ~FitsInt(sizeArg))
        => (calls = <<>> /\ exitCode \in {NotExited, 3})

\* C2: with an argument count other than 1 or 2 (argc outside {2, 3}) the
\* tool exits with code 1 and never opens the path, issues a control call or
\* closes a handle.
C2_UsageNoAccess ==
    (Started /\ (argc < 2 \/ argc > 3))
        => /\ opens = 0 /\ closes = 0 /\ calls = <<>> /\ ~fdOpen
           /\ pc \in {"start", "exited"}
           /\ exitCode \in {NotExited, 1}

C2_Witness == argc = MaxArgc /\ exitCode = 1 /\ Len(err) = 1

\* C3: when the open succeeded the handle is closed exactly once before the
\* process ends, whichever of the codes 0, 3, 4 ends it; with codes 1 and 2
\* no handle was acquired and no close is performed.
C3_ClosedExactlyOnce ==
    /\ closes <= 1
    /\ closes = 1 => (fd # -1 /\ ~fdOpen)
    /\ fdOpen => (fd # -1 /\ Running)
    /\ Exited =>
         IF fd # -1
         THEN closes = 1 /\ ~fdOpen /\ exitCode \in {0, 3, 4}
         ELSE closes = 0 /\ exitCode \in {1, 2}

C3_Witness == exitCode = 3 /\ fd # -1 /\ closes = 1 /\ opens = 1

\* C4: for an openable path and a size argument that is a clean decimal
\* string of value N in [0, 2^31 - 1], the tool issues exactly one set
\* request carrying N and no get request; it then exits 0 having printed the
\* value the request returned (at least N), or exits 4 when the request
\* failed.
C4_SetCarriesN ==
    (SizeGiven /\ AllDigits(sizeArg) /\ FitsInt(sizeArg)) =>
        LET N == DecValue(sizeArg)
        IN  /\ pc = "opened" => calls = <<>>
            /\ pc \in {"called", "exited"} => calls = <<SetCall(N)>>
            /\ Exited =>
                 \/ /\ exitCode = 0 /\ ret # -1 /\ ret >= N
                    /\ Len(out) = 1 /\ AllDigits(out[1]) /\ DecValue(out[1]) = ret
                 \/ exitCode = 4 /\ ret = -1 /\ out = <<>>

C4_Witness ==
    /\ sizeArg = <<"0", "0", "0", "4", "0", "9", "7">>
    /\ calls = <<SetCall(4097)>>
    /\ exitCode = 0
    /\ out = <<<<"8", "1", "9", "2">>>>

\* C5: whenever the path opens and the size argument is not a clean
\* non-negative base-10 integer (the empty string, a string starting with a
\* minus sign, a string with no digits), the tool exits with code 3 and
\* issues no control call.
C5_UncleanRejected ==
    (SizeGiven /\ ~AllDigits(sizeArg))
        => (calls = <<>> /\ exitCode \in {NotExited, 3})

C7_OpenFailureFirst ==
    (argc \in {2, 3} /\ OpenErrno(path) # "OK") =>
        /\ pc \in {"start", "exited"}
        /\ calls = <<>> /\ closes = 0 /\ ~fdOpen
        /\ Exited =>
             /\ exitCode = 2
             /\ Len(err) = 1 /\ HasArg(err[1], "argv[1]", path)

C7_Witness ==
    /\ argc = 3
    /\ sizeArg = <<"a", "b", "c">>
    /\ path = "/tmp/nosuchfifo"
    /\ exitCode = 2

\* C8: once a control call was issued the tool exits with code 4 exactly
\* when the call returned -1 and with code 0 otherwise; standard output holds
\* exactly one line, the returned integer in decimal, on exit code 0 and
\* nothing on a non-zero exit code.
C8_ExitFollowsRet ==
    /\ (Exited /\ calls # <<>>) =>
          /\ exitCode \in {0, 4}
          /\ (exitCode = 4) = (ret = -1)
    /\ exitCode = 0 =>
          /\ calls # <<>>
          /\ Len(out) = 1 /\ AllDigits(out[1]) /\ DecValue(out[1]) = ret
    /\ exitCode # 0 => out = <<>>

C8_Witness == exitCode = 4 /\ calls = <<GetCall>> /\ ret = -1 /\ out = <<>>

\* C9: a path-only invocation issues exactly one get request and no set
\* request and leaves the buffer size of the pipe as it found it; two
\* successive path-only invocations on the same pipe both exit with code 0
\* and print the same value.
C9_QueryIdempotent ==
    argc = 2 =>
        /\ pipeSize = startSize
        /\ pc \in {"start", "opened"} => calls = <<>>
        /\ (pc \in {"called", "exited"} /\ fd # -1) => calls = <<GetCall>>
        /\ (Exited /\ PathKind(path) = "fifo") =>
             /\ exitCode = 0
             /\ Len(out) = 1
             /\ lastQuery.path = path => (lastQuery.exit = 0 /\ lastQuery.out = out)

C9_Witness ==
    /\ argc = 2
    /\ exitCode = 0
    /\ lastQuery.path = path
    /\ lastQuery.out = out
    /\ held
    /\ pipeSize # DefaultPipeSize

\* C10 as stated: every non-zero exit writes a diagnostic that includes the
\* offending path or value: the path for codes 2 and 4, the size argument
\* for code 3; codes 2 and 4 also include the OS error description.
C10_DiagnosticNamesOffender ==
    (Exited /\ exitCode # 0) =>
        /\ Len(err) = 1
        /\ exitCode \in {2, 4} =>
             (HasArg(err[1], "argv[1]", path) /\ HasArgFrom(err[1], "strerror"))
        /\ exitCode = 3 => HasArgFrom(err[1], "argv[2]")

\* C10 amended: every non-zero exit writes exactly one diagnostic and exit 0
\* writes none; the message of code 2 includes the path and the OS error
\* description, the message of code 4 the OS error description only, the
\* message of code 3 is a fixed text, the message of code 1 names the program.
C10_Diagnostics ==
    /\ Running => err = <<>>
    /\ exitCode = 0 => err = <<>>
    /\ (Exited /\ exitCode # 0) =>
        /\ Len(err) = 1
        /\ exitCode = 1 => err[1].args = <<Arg("argv[0]", ProgName)>>
        /\ exitCode = 2 =>
             err[1].args = <<Arg("argv[1]", path),
                             Arg("strerror", strerror(OpenErrno(path)))>>
        /\ exitCode = 3 => err[1].args = <<>>
        /\ exitCode = 4 =>
             /\ err[1].args = <<Arg("strerror", strerror(errno))>>
             /\ errno \in {"EBADF", "EPERM", "EBUSY"}

C10_Witness ==
    /\ exitCode = 4
    /\ PathKind(path) = "fifo"
    /\ argc = 3
    /\ err[1].args = <<Arg("strerror", "Operation not permitted")>>
====
